---------------------------- MODULE Spec2Model ----------------------------
(***************************************************************************)
(* Forest Mini (Obsidian plugin): the Gemini client, the settings, the     *)
(* Mephisto lens view and the "Analyze with Mephisto" command, as a state  *)
(* machine.                                                                *)
(*                                                                         *)
(* Strings are sequences: a note, an API key is a sequence of characters;  *)
(* a message is a sequence of text fragments, so that a template literal   *)
(* is a concatenation (\o) and String.includes is a search for a fragment. *)
(* JavaScript runs the handlers on one thread: a handler runs without      *)
(* interruption up to its next await on the host or the provider, so one   *)
(* action is the code between two such awaits.                             *)
(***************************************************************************)
EXTENDS Integers, Sequences, FiniteSets, TLC

(***************************************************************************)
(* Bounds of the model.                                                    *)
(***************************************************************************)
\* command invocations ("Analyze with Mephisto") that may overlap
MaxInv == 2
\* direct calls of GeminiClient.analyzeNote in the client-level specification
MaxCalls == 2

(***************************************************************************)
(* Strings.                                                                *)
(***************************************************************************)
\* the characters String.prototype.trim removes that occur in the inputs
WhiteSpace == {" ", "\n", "\t"}

RECURSIVE TrimStart(_)
TrimStart(s) ==
    IF s = <<>> THEN <<>>
    ELSE IF Head(s) \in WhiteSpace THEN TrimStart(Tail(s)) ELSE s

RECURSIVE TrimEnd(_)
TrimEnd(s) ==
    IF s = <<>> THEN <<>>
    ELSE IF s[Len(s)] \in WhiteSpace THEN TrimEnd(SubSeq(s, 1, Len(s) - 1)) ELSE s

\* s.trim()
Trim(s) == TrimEnd(TrimStart(s))

\* !s for a string s: only the empty string is falsy
Falsy(s) == s = <<>>

\* Blank, had the code tested !s alone
BlankWithoutTrim(s) == Falsy(s)

\* !s || s.trim() === ''
Blank(s) == Falsy(s) \/ Trim(s) = <<>>

\* message.includes(fragment)
Includes(message, fragment) == \E i \in DOMAIN message : message[i] = fragment

(***************************************************************************)
(* Inputs.                                                                 *)
(***************************************************************************)
\* API keys typed in the setting tab or found in data.json
Keys == { <<>>, <<" ">>, <<"k", "1">>, <<"k", "2">> }

\* texts of the active editor
Docs == { <<>>, <<" ", " ", "\n", " ">>, <<" ", "h", "\n">> }

\* texts the provider's response.text() returns
Texts == { <<>>, <<"Critique: ...">> }

\* a thrown value: an Error with a message, or a value that is no Error
Err(message) == [isError |-> TRUE, message |-> message]
NonError == [isError |-> FALSE, message |-> <<>>]

\* what generateContent / response / text() reject with
ProviderFailures ==
    { Err(<<"[400] ", "API_KEY_INVALID", " API key not valid">>),
      Err(<<"[429] ", "QUOTA_EXCEEDED", " for this project">>),
      Err(<<"fetch failed">>),
      NonError }

ProviderOutcomes ==
    { [kind |-> "text", text |-> t, error |-> NonError] : t \in Texts }
        \cup { [kind |-> "reject", text |-> <<>>, error |-> e] : e \in ProviderFailures }

(***************************************************************************)
(* GeminiClient                                                            *)
(***************************************************************************)
NULL == [tag |-> "null"]

\* new GoogleGenerativeAI(apiKey)
GoogleGenerativeAI(apiKey) == [tag |-> "GoogleGenerativeAI", apiKey |-> apiKey]

\* genAI.getGenerativeModel({ model: 'gemini-1.5-flash' })
GetGenerativeModel(g) ==
    [tag |-> "GenerativeModel", apiKey |-> g.apiKey, model |-> "gemini-1.5-flash"]

ApiKeyRequired == <<"API key is required">>
NotInitialized ==
    <<"Gemini client not initialized. Please set your API key in settings.">>
NoteContentEmpty == <<"Note content is empty">>
EmptyResponse == <<"Empty response from Gemini API">>
InvalidApiKey == <<"Invalid API key. Please check your settings.">>
QuotaExceeded == <<"API quota exceeded. Please try again later.">>
AnalysisFailedPrefix == <<"Analysis failed: ">>
UnknownAnalysisError == <<"Unknown error occurred during analysis">>

Return(v) == [kind |-> "return", value |-> v, error |-> NonError]
Throw(e) == [kind |-> "throw", value |-> <<>>, error |-> e]

\* Initialize, had the code cleared the client before it tested the key
InitializeClearsFirst(apiKey, g, m) ==
    IF Blank(apiKey)
    THEN [threw |-> TRUE, error |-> Err(ApiKeyRequired), genAI |-> NULL, model |-> NULL]
    ELSE [threw |-> FALSE, error |-> NonError,
          genAI |-> GoogleGenerativeAI(apiKey),
          model |-> GetGenerativeModel(GoogleGenerativeAI(apiKey))]

\* Initialize, had the code built genAI before it tested the key
InitializeBeforeCheck(apiKey, g, m) ==
    IF Blank(apiKey)
    THEN [threw |-> TRUE, error |-> Err(ApiKeyRequired),
          genAI |-> GoogleGenerativeAI(apiKey), model |-> m]
    ELSE [threw |-> FALSE, error |-> NonError,
          genAI |-> GoogleGenerativeAI(apiKey),
          model |-> GetGenerativeModel(GoogleGenerativeAI(apiKey))]

\* initialize(apiKey) on a client whose fields are g, m: the outcome and the fields after
Initialize(apiKey, g, m) ==
    IF Blank(apiKey)
    THEN [threw |-> TRUE, error |-> Err(ApiKeyRequired), genAI |-> g, model |-> m]
    ELSE [threw |-> FALSE, error |-> NonError,
          genAI |-> GoogleGenerativeAI(apiKey),
          model |-> GetGenerativeModel(GoogleGenerativeAI(apiKey))]

\* isInitialized()
IsInitialized(m) == m # NULL

\* the prompt analyzeNote sends
FullPrompt(systemPrompt, noteContent) ==
    systemPrompt \o <<"\n\n---\n\nAnalyze the following note:\n\n">> \o noteContent

\* AnalyzeNoteCall, had the code tested the note before the model
AnalyzeNoteCallNoteFirst(m, systemPrompt, noteContent) ==
    IF Blank(noteContent) THEN Throw(Err(NoteContentEmpty))
    ELSE IF m = NULL THEN Throw(Err(NotInitialized))
    ELSE [kind |-> "generateContent",
          value |-> FullPrompt(systemPrompt, noteContent), error |-> NonError]

\* analyzeNote up to its first await: it throws, or it calls generateContent
AnalyzeNoteCall(m, systemPrompt, noteContent) ==
    IF m = NULL THEN Throw(Err(NotInitialized))
    ELSE IF Blank(noteContent) THEN Throw(Err(NoteContentEmpty))
    ELSE [kind |-> "generateContent",
          value |-> FullPrompt(systemPrompt, noteContent), error |-> NonError]

\* AnalyzeNoteCatch, had the code thrown on what it caught
AnalyzeNoteCatchRethrows(error) == Throw(error)

\* AnalyzeNoteCatch, had the code wrapped every Error alike
AnalyzeNoteCatchWrapsAll(error) ==
    IF error.isError
    THEN Throw(Err(AnalysisFailedPrefix \o error.message))
    ELSE Throw(Err(UnknownAnalysisError))

\* the catch block of analyzeNote
AnalyzeNoteCatch(error) ==
    IF error.isError
    THEN IF Includes(error.message, "API_KEY_INVALID") THEN Throw(Err(InvalidApiKey))
         ELSE IF Includes(error.message, "QUOTA_EXCEEDED") THEN Throw(Err(QuotaExceeded))
         ELSE Throw(Err(AnalysisFailedPrefix \o error.message))
    ELSE Throw(Err(UnknownAnalysisError))

\* analyzeNote from the provider's answer on: the try block after the call, and the catch
AnalyzeNoteResume(outcome) ==
    IF outcome.kind = "text"
    THEN IF Falsy(outcome.text)
         THEN AnalyzeNoteCatch(Err(EmptyResponse))
         ELSE Return(outcome.text)
    ELSE AnalyzeNoteCatch(outcome.error)


(***************************************************************************)
(* Settings (DEFAULT_SETTINGS, loadSettings, saveSettings)                 *)
(***************************************************************************)
DefaultPrompt == <<"You are Mephisto, a ruthlessly honest critic ...">>

DEFAULT_SETTINGS == [geminiApiKey |-> <<>>, mephistoPrompt |-> DefaultPrompt]

\* a prompt saved by an earlier session
CustomPrompt == <<"Be brief.">>

\* what loadData() may return: null (no data.json, here the empty object) or an
\* object holding some of the fields
Blobs ==
    { [f \in {} |-> <<>>],
      [geminiApiKey |-> <<" ">>],
      [geminiApiKey |-> <<"k", "1">>],
      [mephistoPrompt |-> CustomPrompt],
      [geminiApiKey |-> <<"k", "1">>, mephistoPrompt |-> CustomPrompt] }

\* prompts typed in the setting tab
Prompts == { DefaultPrompt, CustomPrompt, << >> }

\* ObjectAssign, had the code passed the defaults last
ObjectAssignBaseWins(base, blob) ==
    [f \in DOMAIN base \cup DOMAIN blob |-> IF f \in DOMAIN base THEN base[f] ELSE blob[f]]

\* Object.assign({}, base, blob)
ObjectAssign(base, blob) ==
    [f \in DOMAIN base \cup DOMAIN blob |-> IF f \in DOMAIN blob THEN blob[f] ELSE base[f]]

\* loadSettings(), given what loadData() returns
LoadSettings(blob) == ObjectAssign(DEFAULT_SETTINGS, blob)

(***************************************************************************)
(* LensView                                                                *)
(***************************************************************************)
WelcomeText ==
    <<"Select a note and use \"Analyze with Mephisto\" command to see analysis results here.">>
LoadingText == <<"Mephisto is analyzing...">>

\* The content of a view's contentEl: which of the four renderings it holds, its
\* text, the invocation that put it there (0: onOpen) and, for a result, whether
\* MarkdownRenderer.render has filled the result element
Panel(st, text, by) == [st |-> st, text |-> text, by |-> by, rendered |-> st # "result"]

\* onOpen() -> showWelcomeMessage()
ShowWelcomeMessage == Panel("welcome", WelcomeText, 0)

\* showLoading()
ShowLoading(by) == Panel("loading", LoadingText, by)

\* ShowAnalysis, had the code created the result element and rendered nothing in it
ShowAnalysisWithoutText(analysisText, by) == Panel("result", <<>>, by)

\* showAnalysis(analysisText) up to its await: contentEl emptied, the timestamp and
\* the empty result element created, render started
ShowAnalysis(analysisText, by) == Panel("result", analysisText, by)

\* ShowError, had it called showWelcomeMessage in place of rendering the error
ShowErrorAsWelcome(errorMessage, by) == Panel("welcome", WelcomeText, by)

\* ShowError, had it put the loading indicator back in place of the error
ShowErrorAsLoading(errorMessage, by) == Panel("loading", LoadingText, by)

\* showError(errorMessage)
ShowError(errorMessage, by) == Panel("error", errorMessage, by)

\* what MarkdownRenderer.render may reject with
RenderFailures == { Err(<<"Failed to render markdown">>), NonError }

(***************************************************************************)
(* Notices                                                                 *)
(***************************************************************************)
SetKeyFirst == <<"Please set your Gemini API key in settings first.">>
InitFailed == <<"Failed to initialize Gemini client. Check your API key.">>
OpenFailed == <<"Failed to open Lens View">>
Analyzing == <<"Analyzing with Mephisto...">>
NoteEmpty == <<"Current note is empty">>
AnalysisComplete == <<"Analysis complete!">>
KeySaved == <<"API key saved and client initialized">>
InvalidKeyNotice == <<"Invalid API key">>

\* error instanceof Error ? error.message : 'Unknown error'
ErrorMessage(error) == IF error.isError THEN error.message ELSE <<"Unknown error">>

\* `Analysis failed: ${errorMessage}`
FailureNotice(errorMessage) == <<"Analysis failed: ">> \o errorMessage

(***************************************************************************)
(* Processes: each command invocation, ribbon click and key edit is an     *)
(* async function of its own.                                              *)
(***************************************************************************)
Cmds == 1 .. MaxInv
\* the ribbon icon's callback and the key field's onChange: each runs again and
\* again, one run at a time
Ribbons == { MaxInv + 1 }
Edits == { MaxInv + 2 }
\* the prompt field's onChange, and onload in a new session of the host
PromptEdits == { MaxInv + 3 }
Loaders == { MaxInv + 4 }
Procs == Cmds \cup Ribbons \cup Edits \cup PromptEdits \cup Loaders
Calls == 1 .. MaxCalls

VARIABLES
    settings,   \* plugin.settings
    data,       \* data.json, as loadData() returns it
    genAI,      \* geminiClient.genAI
    model,      \* geminiClient.model
    leaves,     \* workspace.getLeavesOfType(LENS_VIEW_TYPE): the content of each view
    revealed,   \* the leaf workspace.revealLeaf was last called with (0: none)
    pc,         \* where each async function stands
    local,      \* the locals of each async function that live across an await
    notices,    \* the Notices each async function has shown, in order (of a key edit:
                \* those of its last run)
    requests,   \* the generateContent calls in flight, numbered in the order of issue
    netCalls,   \* the number of generateContent calls issued so far
    trace,      \* the changes of content each command invocation has made to its view
    lastShown,  \* the last call of showAnalysis or showError: who made it, and with what
    lastDone,   \* the command invocation that returned last (0: none)
    overlapped, \* the pairs of command invocations that were in flight together
    everInit,   \* whether initialize has ever succeeded on the client
    calls,      \* the direct calls of analyzeNote (client-level specification)
    lastInit    \* the last direct call of initialize (client-level specification)

vars == << settings, data, genAI, model, leaves, revealed, pc, local, notices,
           requests, netCalls, trace, lastShown, lastDone, overlapped, everInit, calls,
           lastInit >>


NoLocal == [tag |-> "none"]
NoInit == [tag |-> "none"]
IdleCall == [pc |-> "idle"]
NoOutcome == [kind |-> "none", text |-> <<>>, error |-> NonError]

\* the content of a view as the user sees it
Content(panel) == << panel.st, panel.text >>

\* a change of content of a view
Change(from, to) == [from |-> Content(from), to |-> Content(to)]

\* new Notice(message), from the async function q
Notify(q, message) == notices' = [notices EXCEPT ![q] = Append(@, message)]

\* GenerateContent, had the code sent the request again
GenerateContentTwice(by, m, fullPrompt) ==
    { [id |-> netCalls + n, by |-> by, apiKey |-> m.apiKey, prompt |-> fullPrompt] :
        n \in {1, 2} }

\* model.generateContent(fullPrompt): the requests it puts on the network
GenerateContent(by, m, fullPrompt) ==
    { [id |-> netCalls + 1, by |-> by, apiKey |-> m.apiKey, prompt |-> fullPrompt] }

(***************************************************************************)
(* onload: the state the plugin is in once the host has loaded it          *)
(***************************************************************************)
\* onload(), given what loadData() returns: the settings and the client after it
Onload(blob) ==
    LET s == LoadSettings(blob)
        r == Initialize(s.geminiApiKey, NULL, NULL)
    IN  [settings |-> s,
         genAI |-> IF Falsy(s.geminiApiKey) THEN NULL ELSE r.genAI,
         model |-> IF Falsy(s.geminiApiKey) THEN NULL ELSE r.model]

\* before any command, click or edit
Quiet ==
    /\ leaves = <<>>
    /\ revealed = 0
    /\ pc = [q \in Procs |-> "idle"]
    /\ local = [q \in Procs |-> NoLocal]
    /\ notices = [q \in Procs |-> <<>>]
    /\ requests = {}
    /\ netCalls = 0
    /\ trace = [p \in Cmds |-> <<>>]
    /\ lastShown = [by |-> 0, content |-> <<>>]
    /\ lastDone = 0
    /\ overlapped = {}
    /\ calls = [c \in Calls |-> IdleCall]

Init ==
    /\ \E blob \in Blobs :
        /\ data = blob
        /\ settings = Onload(blob).settings
        /\ genAI = Onload(blob).genAI
        /\ model = Onload(blob).model
        /\ everInit = IsInitialized(Onload(blob).model)
    /\ Quiet
    /\ lastInit = NoInit

(***************************************************************************)
(* activateLensView                                                        *)
(***************************************************************************)
\* activateLensView() up to its await, or to its end when it awaits nothing; the
\* caller q goes on at `after`
ActivateLensView(q, after) ==
    IF leaves # <<>>
    THEN /\ revealed' = 1
         /\ pc' = [pc EXCEPT ![q] = after]
    ELSE /\ UNCHANGED revealed
         /\ \E rightLeaf \in BOOLEAN :
                pc' = [pc EXCEPT ![q] = IF rightLeaf THEN "setViewState" ELSE after]

\* rightLeaf.setViewState resolves: the host has opened a LensView in the leaf
\* (onOpen), and activateLensView reveals it
SetViewStateResolves(q) ==
    /\ pc[q] = "setViewState"
    /\ leaves' = Append(leaves, ShowWelcomeMessage)
    /\ revealed' = Len(leaves) + 1
    /\ pc' = [pc EXCEPT ![q] = IF q \in Cmds THEN "activated" ELSE "idle"]
    /\ UNCHANGED << settings, data, genAI, model, local, notices, requests, netCalls,
                    trace, lastShown, lastDone, overlapped, everInit, calls, lastInit >>

\* the ribbon icon's callback
RibbonClick(q) ==
    /\ q \in Ribbons
    /\ pc[q] = "idle"
    /\ ActivateLensView(q, "idle")
    /\ UNCHANGED << settings, data, genAI, model, leaves, local, notices, requests,
                    netCalls, trace, lastShown, lastDone, overlapped, everInit, calls, lastInit >>

(***************************************************************************)
(* analyzeCurrentNote                                                      *)
(***************************************************************************)
\* KeyUnset, had the code tested the client instead of the key
KeyUnsetByClient == ~IsInitialized(model)

\* !this.settings.geminiApiKey
KeyUnset == Falsy(settings.geminiApiKey)

\* NoteIsBlank, had the code tested !noteContent alone
NoteIsBlankWithoutTrim(noteContent) == Falsy(noteContent)

\* !noteContent || noteContent.trim() === '' in analyzeCurrentNote
NoteIsBlank(noteContent) == Blank(noteContent)

\* the command invocations in flight
InFlight == { r \in Cmds : pc[r] \notin {"idle", "done"} }

\* analyzeCurrentNote returns
Done(p) ==
    /\ pc' = [pc EXCEPT ![p] = "done"]
    /\ lastDone' = p

\* the command's callback up to the await of activateLensView
AnalyzeCurrentNote(p) ==
    /\ p \in Cmds
    /\ pc[p] = "idle"
    /\ \A r \in Cmds : r < p => pc[r] # "idle"
    /\ IF KeyUnset
       THEN /\ Notify(p, SetKeyFirst)
            /\ Done(p)
            /\ UNCHANGED << genAI, model, everInit, revealed >>
       ELSE LET r == IF IsInitialized(model)
                     THEN [threw |-> FALSE, error |-> NonError,
                           genAI |-> genAI, model |-> model]
                     ELSE Initialize(settings.geminiApiKey, genAI, model)
            IN  IF r.threw
                THEN /\ Notify(p, InitFailed)
                     /\ Done(p)
                     /\ UNCHANGED << genAI, model, everInit, revealed >>
                ELSE /\ genAI' = r.genAI
                     /\ model' = r.model
                     /\ everInit' = TRUE
                     /\ UNCHANGED << notices, lastDone >>
                     /\ ActivateLensView(p, "activated")
    /\ overlapped' = IF pc'[p] = "done" THEN overlapped
                      ELSE overlapped \cup { << r, p >> : r \in InFlight }
    /\ UNCHANGED << settings, data, leaves, local, requests, netCalls, trace, lastShown,
                    calls, lastInit >>

\* CallShowError, had the handler left the call of showError out
CallShowErrorLeftOut(p, i, lv, tr, from, message) ==
    /\ leaves' = lv
    /\ trace' = tr
    /\ UNCHANGED lastShown

\* lensView.showError(message) on the view of leaf i, whose content is `from`
CallShowError(p, i, lv, tr, from, message) ==
    /\ leaves' = [lv EXCEPT ![i] = ShowError(message, p)]
    /\ trace' = [tr EXCEPT ![p] = Append(@, Change(from, ShowError(message, p)))]
    /\ lastShown' = [by |-> p, content |-> Content(ShowError(message, p))]

\* CatchAnalysisError, had the catch block shown the Notice alone
CatchAnalysisErrorNoticeOnly(p, i, error) ==
    /\ UNCHANGED << leaves, trace, lastShown >>
    /\ Notify(p, FailureNotice(ErrorMessage(error)))
    /\ Done(p)

\* the catch block of analyzeCurrentNote
CatchAnalysisError(p, i, error) ==
    /\ CallShowError(p, i, leaves, trace, leaves[i], ErrorMessage(error))
    /\ Notify(p, FailureNotice(ErrorMessage(error)))
    /\ Done(p)

\* from the return of activateLensView to the await of analyzeNote
Activated(p) ==
    /\ pc[p] = "activated"
    /\ IF leaves = <<>>
       THEN /\ Notify(p, OpenFailed)
            /\ Done(p)
            /\ UNCHANGED << leaves, local, requests, netCalls, trace, lastShown >>
       ELSE LET lv == [leaves EXCEPT ![1] = ShowLoading(p)]
                tr == [trace EXCEPT ![p] = Append(@, Change(leaves[1], ShowLoading(p)))]
            IN  \E noteContent \in Docs :
                  /\ local' = [local EXCEPT ![p] =
                        [lensView |-> 1, noteContent |-> noteContent,
                         outcome |-> NoOutcome, render |-> "none"]]
                  /\ IF NoteIsBlank(noteContent)
                     THEN /\ CallShowError(p, 1, lv, tr, ShowLoading(p), NoteEmpty)
                          /\ notices' = [notices EXCEPT ![p] = @ \o << Analyzing, NoteEmpty >>]
                          /\ Done(p)
                          /\ UNCHANGED << requests, netCalls >>
                     ELSE LET r == AnalyzeNoteCall(model, settings.mephistoPrompt, noteContent)
                          IN  IF r.kind = "generateContent"
                              THEN /\ leaves' = lv
                                   /\ trace' = tr
                                   /\ Notify(p, Analyzing)
                                   /\ requests' = requests \cup GenerateContent(p, model, r.value)
                                   /\ netCalls' = netCalls + Cardinality(GenerateContent(p, model, r.value))
                                   /\ pc' = [pc EXCEPT ![p] = "generateContent"]
                                   /\ UNCHANGED << lastShown, lastDone >>
                              ELSE /\ CallShowError(p, 1, lv, tr, ShowLoading(p), ErrorMessage(r.error))
                                   /\ notices' = [notices EXCEPT ![p] =
                                         @ \o << Analyzing, FailureNotice(ErrorMessage(r.error)) >>]
                                   /\ Done(p)
                                   /\ UNCHANGED << requests, netCalls >>
    /\ UNCHANGED << settings, data, genAI, model, revealed, overlapped, everInit, calls, lastInit >>

\* ProviderResponds, had analyzeNote sent the request once more after a failure
ProviderRespondsRetries(p, outcome) ==
    /\ p \in Cmds
    /\ pc[p] = "generateContent"
    /\ LET r == AnalyzeNoteResume(outcome)
           i == local[p].lensView
           again == GenerateContent(p, model,
                       FullPrompt(settings.mephistoPrompt, local[p].noteContent))
       IN  IF r.kind = "return"
           THEN /\ requests' = { s \in requests : s.by # p }
                /\ leaves' = [leaves EXCEPT ![i] = ShowAnalysis(r.value, p)]
                /\ trace' = [trace EXCEPT ![p] =
                      Append(@, Change(leaves[i], ShowAnalysis(r.value, p)))]
                /\ lastShown' = [by |-> p, content |-> Content(ShowAnalysis(r.value, p))]
                /\ local' = [local EXCEPT ![p].outcome = outcome, ![p].render = "pending"]
                /\ pc' = [pc EXCEPT ![p] = "render"]
                /\ UNCHANGED << notices, lastDone, netCalls >>
           ELSE IF local[p].outcome.kind = "none"
           THEN /\ requests' = { s \in requests : s.by # p } \cup again
                /\ netCalls' = netCalls + 1
                /\ local' = [local EXCEPT ![p].outcome = outcome]
                /\ UNCHANGED << leaves, trace, lastShown, notices, lastDone, pc >>
           ELSE /\ requests' = { s \in requests : s.by # p }
                /\ CatchAnalysisError(p, i, r.error)
                /\ local' = [local EXCEPT ![p].outcome = outcome]
                /\ UNCHANGED netCalls
    /\ UNCHANGED << settings, data, genAI, model, revealed, overlapped, everInit, calls, lastInit >>

\* the provider answers the call of invocation p: the rest of analyzeNote, then
\* showAnalysis up to its await of the renderer, or the catch block
ProviderResponds(p, outcome) ==
    /\ p \in Cmds
    /\ pc[p] = "generateContent"
    /\ requests' = { r \in requests : r.by # p }
    /\ LET r == AnalyzeNoteResume(outcome)
           i == local[p].lensView
       IN  IF r.kind = "return"
           THEN /\ leaves' = [leaves EXCEPT ![i] = ShowAnalysis(r.value, p)]
                /\ trace' = [trace EXCEPT ![p] =
                      Append(@, Change(leaves[i], ShowAnalysis(r.value, p)))]
                /\ lastShown' = [by |-> p, content |-> Content(ShowAnalysis(r.value, p))]
                /\ local' = [local EXCEPT ![p].outcome = outcome, ![p].render = "pending"]
                /\ pc' = [pc EXCEPT ![p] = "render"]
                /\ UNCHANGED << notices, lastDone >>
           ELSE /\ CatchAnalysisError(p, i, r.error)
                /\ local' = [local EXCEPT ![p].outcome = outcome]
    /\ UNCHANGED << settings, data, genAI, model, revealed, netCalls, overlapped, everInit, calls, lastInit >>

\* RenderResolves, had showAnalysis rendered into contentEl itself
RenderResolvesIntoContentEl(p) ==
    /\ pc[p] = "render"
    /\ LET i == local[p].lensView
       IN  leaves' = [leaves EXCEPT ![i] =
                        [ShowAnalysis(local[p].outcome.text, p) EXCEPT !.rendered = TRUE]]
    /\ local' = [local EXCEPT ![p].render = "resolved"]
    /\ Notify(p, AnalysisComplete)
    /\ Done(p)
    /\ UNCHANGED << settings, data, genAI, model, revealed, requests, netCalls,
                    trace, lastShown, overlapped, everInit, calls, lastInit >>

\* MarkdownRenderer.render resolves: the result element is filled (it shows only
\* if contentEl still holds it), showAnalysis returns and the success Notice follows
RenderResolves(p) ==
    /\ pc[p] = "render"
    /\ LET i == local[p].lensView
       IN  leaves' = IF leaves[i].st = "result" /\ leaves[i].by = p
                     THEN [leaves EXCEPT ![i].rendered = TRUE]
                     ELSE leaves
    /\ local' = [local EXCEPT ![p].render = "resolved"]
    /\ Notify(p, AnalysisComplete)
    /\ Done(p)
    /\ UNCHANGED << settings, data, genAI, model, revealed, requests, netCalls,
                    trace, lastShown, overlapped, everInit, calls, lastInit >>

\* MarkdownRenderer.render rejects: the catch block
RenderRejects(p, error) ==
    /\ pc[p] = "render"
    /\ CatchAnalysisError(p, local[p].lensView, error)
    /\ local' = [local EXCEPT ![p].render = "rejected"]
    /\ UNCHANGED << settings, data, genAI, model, revealed, requests, netCalls,
                    overlapped, everInit, calls, lastInit >>

(***************************************************************************)
(* ForestMiniSettingTab: the API key field                                 *)
(***************************************************************************)
\* onChange(value) up to the await of saveSettings
KeyOnChange(e, value) ==
    /\ e \in Edits
    /\ pc[e] = "idle"
    /\ settings' = [settings EXCEPT !.geminiApiKey = value]
    /\ local' = [local EXCEPT ![e] = [value |-> value, saving |-> settings']]
    /\ notices' = [notices EXCEPT ![e] = <<>>]
    /\ pc' = [pc EXCEPT ![e] = "saveData"]
    /\ UNCHANGED << data, genAI, model, leaves, revealed, requests, netCalls,
                    trace, lastShown, lastDone, overlapped, everInit, calls, lastInit >>

\* saveData resolves, and onChange goes on to reinitialize the client
SaveDataResolves(e) ==
    /\ e \in Edits
    /\ pc[e] = "saveData"
    /\ data' = local[e].saving
    /\ LET r == Initialize(local[e].value, genAI, model)
       IN  IF Falsy(local[e].value)
           THEN UNCHANGED << genAI, model, everInit, notices >>
           ELSE /\ genAI' = r.genAI
                /\ model' = r.model
                /\ everInit' = (everInit \/ ~r.threw)
                /\ Notify(e, IF r.threw THEN InvalidKeyNotice ELSE KeySaved)
    /\ local' = [local EXCEPT ![e] = NoLocal]
    /\ pc' = [pc EXCEPT ![e] = "idle"]
    /\ UNCHANGED << settings, leaves, revealed, requests, netCalls, trace,
                    lastShown, lastDone, overlapped, calls, lastInit >>

\* the prompt field's onChange(value) up to the await of saveSettings
PromptOnChange(e, value) ==
    /\ e \in PromptEdits
    /\ pc[e] = "idle"
    /\ settings' = [settings EXCEPT !.mephistoPrompt = value]
    /\ local' = [local EXCEPT ![e] = [value |-> value, saving |-> settings']]
    /\ pc' = [pc EXCEPT ![e] = "saveData"]
    /\ UNCHANGED << data, genAI, model, leaves, revealed, notices, requests, netCalls,
                    trace, lastShown, lastDone, overlapped, everInit, calls, lastInit >>

\* saveData resolves, and the prompt field's onChange returns
PromptSaved(e) ==
    /\ e \in PromptEdits
    /\ pc[e] = "saveData"
    /\ data' = local[e].saving
    /\ local' = [local EXCEPT ![e] = NoLocal]
    /\ pc' = [pc EXCEPT ![e] = "idle"]
    /\ UNCHANGED << settings, genAI, model, leaves, revealed, notices, requests, netCalls,
                    trace, lastShown, lastDone, overlapped, everInit, calls, lastInit >>

(***************************************************************************)
(* A new session: the host unloads the plugin (onunload detaches the       *)
(* views) and loads it again (onload), with nothing of the earlier session *)
(* still running.                                                          *)
(***************************************************************************)
\* onunload(), then onload() to its end; the loader keeps what loadData()
\* returned, the settings of the session before, the settings loaded and
\* data.json as the load leaves it
Restart(l) ==
    /\ l \in Loaders
    /\ \A q \in Procs : pc[q] \in {"idle", "done"}
    /\ leaves' = << >>
    /\ revealed' = 0
    /\ settings' = Onload(data).settings
    /\ genAI' = Onload(data).genAI
    /\ model' = Onload(data).model
    /\ everInit' = IsInitialized(Onload(data).model)
    /\ data' = data
    /\ local' = [local EXCEPT ![l] =
          [blob |-> data, before |-> settings, loaded |-> settings', dataAfter |-> data']]
    /\ UNCHANGED << pc, notices, requests, netCalls, trace, lastShown, lastDone,
                    overlapped, calls, lastInit >>

Next ==
    \/ \E p \in Cmds : AnalyzeCurrentNote(p)
    \/ \E q \in Procs : SetViewStateResolves(q)
    \/ \E p \in Cmds : Activated(p)
    \/ \E p \in Cmds : \E outcome \in ProviderOutcomes : ProviderResponds(p, outcome)
    \/ \E p \in Cmds : RenderResolves(p)
    \/ \E p \in Cmds : \E error \in RenderFailures : RenderRejects(p, error)
    \/ \E q \in Ribbons : RibbonClick(q)
    \/ \E e \in Edits : \E value \in Keys : KeyOnChange(e, value)
    \/ \E e \in Edits : SaveDataResolves(e)

Spec == Init /\ [][Next]_vars


\* The host and the provider complete what the plugin awaits: setViewState
\* resolves, the provider answers every call, the renderer settles every
\* rendering; and the event loop runs the continuation of activateLensView.
Fairness ==
    \A p \in Cmds :
        /\ WF_vars(SetViewStateResolves(p))
        /\ WF_vars(Activated(p))
        /\ WF_vars(\E outcome \in ProviderOutcomes : ProviderResponds(p, outcome))
        /\ WF_vars(RenderResolves(p) \/ \E error \in RenderFailures : RenderRejects(p, error))

\* the commands and the ribbon icon, the setting tab left closed
CommandNext ==
    \/ \E p \in Cmds : AnalyzeCurrentNote(p)
    \/ \E q \in Procs : SetViewStateResolves(q)
    \/ \E p \in Cmds : Activated(p)
    \/ \E p \in Cmds : \E outcome \in ProviderOutcomes : ProviderResponds(p, outcome)
    \/ \E p \in Cmds : RenderResolves(p)
    \/ \E p \in Cmds : \E error \in RenderFailures : RenderRejects(p, error)
    \/ \E q \in Ribbons : RibbonClick(q)

FairSpec == Init /\ [][CommandNext]_vars /\ Fairness


(***************************************************************************)
(* The client alone: a caller that constructs a GeminiClient and calls its *)
(* methods directly, in any order, the calls of analyzeNote overlapping.   *)
(***************************************************************************)
SystemPrompts == { DefaultPrompt, <<>> }

\* new GeminiClient()
ClientInit ==
    /\ genAI = NULL
    /\ model = NULL
    /\ everInit = FALSE
    /\ settings = DEFAULT_SETTINGS
    /\ data = << >>
    /\ Quiet
    /\ lastInit = NoInit

\* geminiClient.initialize(apiKey), then isInitialized()
CallInitialize(apiKey) ==
    /\ LET r == Initialize(apiKey, genAI, model)
       IN  /\ genAI' = r.genAI
           /\ model' = r.model
           /\ everInit' = (everInit \/ ~r.threw)
           /\ lastInit' = [apiKey |-> apiKey, threw |-> r.threw, error |-> r.error,
                           before |-> << genAI, model >>,
                           after |-> << r.genAI, r.model >>,
                           isInitialized |-> IsInitialized(r.model)]
    /\ UNCHANGED << settings, data, leaves, revealed, pc, local, notices, requests,
                    netCalls, trace, lastShown, lastDone, overlapped, calls >>

\* geminiClient.analyzeNote(systemPrompt, noteContent) up to its await, or to its throw
CallAnalyzeNote(c, systemPrompt, noteContent) ==
    /\ calls[c].pc = "idle"
    /\ \A d \in Calls : d < c => calls[d].pc # "idle"
    /\ LET r == AnalyzeNoteCall(model, systemPrompt, noteContent)
           sent == IF r.kind = "generateContent"
                   THEN GenerateContent(c, model, r.value) ELSE {}
       IN  /\ requests' = requests \cup sent
           /\ netCalls' = netCalls + Cardinality(sent)
           /\ calls' = [calls EXCEPT ![c] =
                 [pc |-> IF r.kind = "generateContent" THEN "generateContent" ELSE "done",
                  noteContent |-> noteContent,
                  wasInitialized |-> everInit,
                  issued |-> Cardinality(sent),
                  outcome |-> NoOutcome,
                  result |-> IF r.kind = "generateContent" THEN Return(<<>>) ELSE r]]
    /\ UNCHANGED << settings, data, genAI, model, leaves, revealed, pc, local, notices,
                    trace, lastShown, lastDone, overlapped, everInit, lastInit >>

\* the provider answers the call c: the rest of analyzeNote
CallProviderResponds(c, outcome) ==
    /\ calls[c].pc = "generateContent"
    /\ requests' = { r \in requests : r.by # c }
    /\ calls' = [calls EXCEPT ![c].pc = "done", ![c].outcome = outcome,
                              ![c].result = AnalyzeNoteResume(outcome)]
    /\ UNCHANGED << settings, data, genAI, model, leaves, revealed, pc, local, notices,
                    netCalls, trace, lastShown, lastDone, overlapped, everInit, lastInit >>

ClientNext ==
    \/ \E apiKey \in Keys : CallInitialize(apiKey)
    \/ \E c \in Calls : \E systemPrompt \in SystemPrompts : \E noteContent \in Docs :
          CallAnalyzeNote(c, systemPrompt, noteContent)
    \/ \E c \in Calls : \E outcome \in ProviderOutcomes : CallProviderResponds(c, outcome)

ClientSpec == ClientInit /\ [][ClientNext]_vars


(***************************************************************************)
(* The settings alone: the two fields of the setting tab are edited, each  *)
(* edit saved, and the plugin is loaded again from what was saved.         *)
(***************************************************************************)
SettingsNext ==
    \/ \E e \in Edits : \E value \in Keys : KeyOnChange(e, value)
    \/ \E e \in Edits : SaveDataResolves(e)
    \/ \E e \in PromptEdits : \E value \in Prompts : PromptOnChange(e, value)
    \/ \E e \in PromptEdits : PromptSaved(e)
    \/ \E l \in Loaders : Restart(l)

SettingsSpec == Init /\ [][SettingsNext]_vars


(***************************************************************************)
(* Properties of the client (checked under ClientSpec)                     *)
(***************************************************************************)
\* a string that is empty or holds white space only
WhiteOnly(s) == \A i \in DOMAIN s : s[i] \in WhiteSpace

\* the direct calls of analyzeNote that have been made
Made == { c \in Calls : calls[c].pc # "idle" }

\* C1: while the client has never been successfully initialized, every call of
\* analyzeNote, whatever its arguments, has thrown 'Gemini client not initialized.
\* ...' at once and has issued no network call, and none has been issued at all.
C1_AnalyzeBeforeInitialize ==
    /\ \A c \in Made :
          ~calls[c].wasInitialized =>
              /\ calls[c].pc = "done"
              /\ calls[c].result = Throw(Err(NotInitialized))
              /\ calls[c].issued = 0
    /\ ~everInit => netCalls = 0 /\ requests = {}

\* C1, its case: a call with a non-blank note on a client on which initialize has
\* only failed so far
C1_Witness ==
    \E c \in Made :
        /\ ~calls[c].wasInitialized
        /\ ~WhiteOnly(calls[c].noteContent)
        /\ lastInit # NoInit

\* C2: on an initialized client, every call of analyzeNote whose noteContent is
\* empty or white space only has thrown 'Note content is empty' at once, whatever
\* the systemPrompt, and has issued no network call.
C2_BlankNoteContent ==
    \A c \in Made :
        calls[c].wasInitialized /\ WhiteOnly(calls[c].noteContent) =>
            /\ calls[c].pc = "done"
            /\ calls[c].result = Throw(Err(NoteContentEmpty))
            /\ calls[c].issued = 0

\* C2, its case: a call with a note of white space only, not empty, on an
\* initialized client
C2_Witness ==
    \E c \in Made :
        /\ calls[c].wasInitialized
        /\ WhiteOnly(calls[c].noteContent)
        /\ calls[c].noteContent # <<>>

\* C3: initialize(apiKey) throws 'API key is required' exactly when apiKey is empty
\* or white space only, and then genAI and model are what they were before the
\* call; with any other key it returns, isInitialized() is true afterwards, and the
\* handle is built from that key.
C3_Initialize ==
    lastInit # NoInit =>
        /\ lastInit.threw <=> WhiteOnly(lastInit.apiKey)
        /\ lastInit.threw =>
              /\ lastInit.error = Err(ApiKeyRequired)
              /\ lastInit.after = lastInit.before
        /\ ~lastInit.threw =>
              /\ lastInit.isInitialized
              /\ lastInit.after[2].apiKey = lastInit.apiKey
        /\ << genAI, model >> = lastInit.after
        /\ IsInitialized(model) = everInit

\* C3, its case: initialize with a key of white space fails on a client that a
\* valid key had initialized
C3_Witness ==
    /\ lastInit # NoInit
    /\ lastInit.threw
    /\ lastInit.apiKey # <<>>
    /\ lastInit.before[2] # NULL

\* C8 as claimed: when the provider returns an empty text, analyzeNote throws
\* 'Empty response from Gemini API'.
C8_EmptyResponseError ==
    \A c \in Made :
        calls[c].pc = "done" /\ calls[c].outcome.kind = "text" /\ calls[c].outcome.text = <<>>
            => calls[c].result = Throw(Err(EmptyResponse))


(***************************************************************************)
(* Properties of the command (checked under Spec)                          *)
(***************************************************************************)
\* no other command invocation has started: p is the only one so far
Alone(p) == \A r \in Cmds \ {p} : pc[r] = "idle"

\* every command invocation that has started has returned
AllReturned == \A r \in Cmds : pc[r] \in {"idle", "done"}

Welcome == << "welcome", WelcomeText >>
Loading == << "loading", LoadingText >>

\* C4: a command run while settings.geminiApiKey is empty shows the Notice 'Please
\* set your Gemini API key in settings first.' and returns in the same step; the
\* views, the revealed leaf, the client and the network are left as they were.
C4_KeyUnsetOnlyNotifies ==
    [][\A p \in Cmds :
          (pc[p] = "idle" /\ pc'[p] # "idle" /\ settings.geminiApiKey = <<>>) =>
              /\ pc'[p] = "done"
              /\ notices'[p] = << SetKeyFirst >>
              /\ UNCHANGED << leaves, revealed, trace, lastShown, genAI, model,
                              requests, netCalls >>]_vars

\* C4, its case: the command has run with the key cleared in the setting tab,
\* the client initialized and a view open
C4_Witness ==
    \E p \in Cmds :
        /\ pc[p] = "done"
        /\ notices[p] = << SetKeyFirst >>
        /\ settings.geminiApiKey = <<>>
        /\ IsInitialized(model)
        /\ leaves # <<>>

\* C5: a command invocation that runs alone and reads a note that is empty or
\* white space only has returned in the step in which it read the note: its view
\* went from Welcome to Loading to Error('Current note is empty') and nothing
\* else, the Notices are 'Analyzing with Mephisto...' and 'Current note is empty',
\* and no network call has been issued.
C5_BlankDocument ==
    \A p \in Cmds :
        (Alone(p) /\ local[p] # NoLocal /\ WhiteOnly(local[p].noteContent)) =>
            /\ pc[p] = "done"
            /\ trace[p] = << [from |-> Welcome, to |-> Loading],
                             [from |-> Loading, to |-> << "error", NoteEmpty >>] >>
            /\ Content(leaves[1]) = << "error", NoteEmpty >>
            /\ notices[p] = << Analyzing, NoteEmpty >>
            /\ netCalls = 0
            /\ requests = {}

\* C5, its case: the note read is white space only, not empty
C5_Witness ==
    \E p \in Cmds :
        /\ Alone(p)
        /\ local[p] # NoLocal
        /\ WhiteOnly(local[p].noteContent)
        /\ local[p].noteContent # <<>>

\* the provider has answered the call of invocation p with a non-empty text
GotText(p) ==
    /\ local[p] # NoLocal
    /\ local[p].outcome.kind = "text"
    /\ local[p].outcome.text # <<>>

\* C6 as claimed: an invocation that runs alone and gets a non-empty text t from
\* the provider takes its view from Welcome to Loading to Result(t), never shows
\* an error, and shows 'Analysis complete!' only once the rendering has resolved.
C6_ResultAndNoError ==
    \A p \in Cmds :
        (Alone(p) /\ GotText(p)) =>
            /\ SubSeq(trace[p], 1, 2) =
                  << [from |-> Welcome, to |-> Loading],
                     [from |-> Loading, to |-> << "result", local[p].outcome.text >>] >>
            /\ \A i \in DOMAIN trace[p] : trace[p][i].to[1] # "error"
            /\ Includes(notices[p], AnalysisComplete) => local[p].render = "resolved"

\* C6 as amended: such an invocation takes its view from Welcome to Loading to
\* Result(t); while the rendering is awaited it shows no further Notice; if the
\* rendering resolves it shows 'Analysis complete!' and returns with the view
\* still on Result(t); if the rendering rejects it takes the view from Result(t)
\* to Error and shows the failure Notice, never 'Analysis complete!'. Alone or
\* not, 'Analysis complete!' is shown only by an invocation whose rendering has
\* resolved.
C6_ResultThenRendering ==
    /\ \A p \in Cmds :
          (Alone(p) /\ GotText(p)) =>
              LET t == local[p].outcome.text
                  shown == << [from |-> Welcome, to |-> Loading],
                              [from |-> Loading, to |-> << "result", t >>] >>
              IN  /\ SubSeq(trace[p], 1, 2) = shown
                  /\ local[p].render = "pending" =>
                        /\ pc[p] = "render"
                        /\ trace[p] = shown
                        /\ notices[p] = << Analyzing >>
                  /\ local[p].render = "resolved" =>
                        /\ pc[p] = "done"
                        /\ trace[p] = shown
                        /\ notices[p] = << Analyzing, AnalysisComplete >>
                        /\ Content(leaves[1]) = << "result", t >>
                        /\ leaves[1].rendered
                  /\ local[p].render = "rejected" =>
                        /\ pc[p] = "done"
                        /\ Len(trace[p]) = 3
                        /\ trace[p][3].from = << "result", t >>
                        /\ trace[p][3].to[1] = "error"
                        /\ notices[p] =
                              << Analyzing, << "Analysis failed: " >> \o trace[p][3].to[2] >>
                  /\ local[p].render \in {"pending", "resolved", "rejected"}
    /\ \A p \in Cmds :
          Includes(notices[p], AnalysisComplete) =>
              pc[p] = "done" /\ GotText(p) /\ local[p].render = "resolved"

\* C6, its case: the invocation has run alone to its end, the rendering resolved
C6_Witness ==
    \E p \in Cmds :
        /\ Alone(p)
        /\ GotText(p)
        /\ pc[p] = "done"
        /\ local[p].render = "resolved"

\* the provider has rejected the call of invocation p with an Error that carries
\* the code of an invalid credential
CredentialInvalid(p) ==
    /\ local[p] # NoLocal
    /\ local[p].outcome.kind = "reject"
    /\ local[p].outcome.error.isError
    /\ Includes(local[p].outcome.error.message, "API_KEY_INVALID")

\* C7 as claimed: after such a rejection the view shows Error('Invalid API key.
\* Please check your settings.') and the Notice of the failure is that message.
C7_NoticeEqualsPanelMessage ==
    \A p \in Cmds :
        (pc[p] = "done" /\ CredentialInvalid(p)) =>
            /\ trace[p][Len(trace[p])].to = << "error", InvalidApiKey >>
            /\ notices[p][Len(notices[p])] = InvalidApiKey

\* C7 as amended: after such a rejection the invocation has put Error('Invalid API
\* key. Please check your settings.') in its view, where it stays until another
\* invocation writes to the view, and the Notice of the failure is 'Analysis
\* failed: ' followed by that message.
C7_NoticeWrapsPanelMessage ==
    \A p \in Cmds :
        CredentialInvalid(p) =>
            /\ pc[p] = "done"
            /\ trace[p][Len(trace[p])].to = << "error", InvalidApiKey >>
            /\ notices[p][Len(notices[p])] = << "Analysis failed: " >> \o InvalidApiKey
            /\ leaves[1].by = p => Content(leaves[1]) = << "error", InvalidApiKey >>

\* C7, its case
C7_Witness == \E p \in Cmds : pc[p] = "done" /\ CredentialInvalid(p)

\* C9 as claimed: at most one request to the provider is in flight.
C9_AtMostOneRequest == Cardinality(requests) <= 1

\* C9 as amended: each command invocation has one request in flight while it
\* awaits analyzeNote and none otherwise, so that there are as many requests in
\* flight as invocations awaiting analyzeNote, which overlapping invocations make
\* more than one.
C9_OneRequestPerInvocation ==
    /\ \A p \in Cmds :
          Cardinality({ r \in requests : r.by = p }) =
              IF pc[p] = "generateContent" THEN 1 ELSE 0
    /\ \A r \in requests : r.by \in Cmds
    /\ Cardinality(requests) <= Cardinality(InFlight)

\* C9, its case: two invocations overlap and both await the provider
C9_Witness == Cardinality(requests) = 2

\* C10 as claimed: once the overlapping invocations have returned, the view shows
\* what the invocation that returned last has shown last.
C10_LastReturnedWins ==
    (AllReturned /\ overlapped # {} /\ lastDone # 0 /\ trace[lastDone] # <<>>) =>
        /\ Content(leaves[1]) = trace[lastDone][Len(trace[lastDone])].to
        /\ leaves[1].by = lastDone

\* C10 as amended: once the invocations have returned, the view shows what the
\* last call of showAnalysis or showError has put there, in full and nothing
\* else, whichever invocation started first and whichever returned last: an
\* invocation whose rendering resolves after that call returns last and leaves
\* nothing of its own in the view.
C10_LastShownWins ==
    (AllReturned /\ lastShown.by # 0) =>
        /\ Content(leaves[1]) = lastShown.content
        /\ leaves[1].by = lastShown.by
        /\ leaves[1].rendered
        /\ trace[lastShown.by][Len(trace[lastShown.by])].to = lastShown.content

\* C10, its case: two invocations overlapped, both showed something, and the one
\* that returned last is not the one that showed last
C10_Witness ==
    /\ AllReturned
    /\ overlapped # {}
    /\ lastShown.by # 0
    /\ lastDone # lastShown.by
    /\ trace[lastDone] # <<>>

\* C11 as claimed: at most one LensView exists, whatever the ribbon clicks and
\* command invocations and however their awaits of setViewState interleave.
C11_AtMostOnePanel == Len(leaves) <= 1

\* the invocation p ran into the catch block of its guard: initialize threw
InitThrew(p) == notices[p] = << InitFailed >>

\* analyzeNote threw in the invocation p
AnalyzeThrew(p) ==
    /\ local[p] # NoLocal
    /\ local[p].outcome.kind # "none"
    /\ AnalyzeNoteResume(local[p].outcome).kind = "throw"

\* the rendering of the result rejected in the invocation p
RenderThrew(p) == local[p] # NoLocal /\ local[p].render = "rejected"

\* C12 as claimed: every invocation in which initialize, analyzeNote or the
\* rendering threw has returned, its last change of the view is to Error(m) and
\* its last Notice carries that same m.
C12_EveryErrorShown ==
    \A p \in Cmds :
        (InitThrew(p) \/ AnalyzeThrew(p) \/ RenderThrew(p)) =>
            /\ pc[p] = "done"
            /\ trace[p] # << >>
            /\ trace[p][Len(trace[p])].to[1] = "error"
            /\ \E prefix \in { << >>, << "Analysis failed: " >> } :
                  notices[p][Len(notices[p])] = prefix \o trace[p][Len(trace[p])].to[2]

\* C12 as amended: an invocation in which analyzeNote or the rendering threw has
\* returned, its last change of the view is to Error(m), m the message of the
\* error (or 'Unknown error'), and its last Notice is 'Analysis failed: ' followed
\* by m; an invocation in which initialize threw has returned with the one Notice
\* 'Failed to initialize Gemini client. Check your API key.' and has not touched
\* any view.
C12_CaughtErrors ==
    \A p \in Cmds :
        /\ AnalyzeThrew(p) =>
              /\ pc[p] = "done"
              /\ trace[p][Len(trace[p])].to =
                    << "error", AnalyzeNoteResume(local[p].outcome).error.message >>
              /\ notices[p][Len(notices[p])] =
                    << "Analysis failed: " >> \o AnalyzeNoteResume(local[p].outcome).error.message
        /\ RenderThrew(p) =>
              /\ pc[p] = "done"
              /\ \E error \in RenderFailures :
                    /\ trace[p][Len(trace[p])].to = << "error", ErrorMessage(error) >>
                    /\ notices[p][Len(notices[p])] =
                          << "Analysis failed: " >> \o ErrorMessage(error)
        /\ InitThrew(p) =>
              /\ pc[p] = "done"
              /\ trace[p] = << >>
              /\ local[p] = NoLocal
              /\ \A i \in DOMAIN leaves : leaves[i].by # p

\* C12, its case: one invocation has failed in its guard, and another in its
\* rendering
C12_Witness ==
    \E p, q \in Cmds : InitThrew(p) /\ RenderThrew(q) /\ pc[q] = "done"

\* the command invocations that have called generateContent
Requested == { p \in Cmds : pc[p] = "generateContent"
                            \/ (local[p] # NoLocal /\ local[p].outcome.kind # "none") }

\* the provider has answered the call of invocation p with a failure or with an
\* empty text
ProviderFailed(p) ==
    /\ local[p] # NoLocal
    /\ \/ local[p].outcome.kind = "reject"
       \/ local[p].outcome.kind = "text" /\ local[p].outcome.text = << >>

\* C13: the network calls issued so far are one for each command invocation that
\* has reached generateContent and one for each direct call of analyzeNote that
\* has: none has issued a second one. An invocation whose call the provider has
\* answered, with a failure or an empty text in particular, has returned or
\* awaits its rendering, and has no request in flight.
C13_FireOnce ==
    /\ netCalls = Cardinality(Requested) + Cardinality({ c \in Made : calls[c].issued # 0 })
    /\ \A c \in Made : calls[c].issued \in {0, 1}
    /\ \A p \in Cmds :
          (local[p] # NoLocal /\ local[p].outcome.kind # "none") =>
              /\ pc[p] \in {"render", "done"}
              /\ \A r \in requests : r.by # p
    /\ \A p \in Cmds : ProviderFailed(p) => pc[p] = "done"

\* C13, its case: the provider has failed both of two overlapping invocations,
\* once with an empty text, and two calls have been issued in all
C13_Witness ==
    /\ \A p \in Cmds : ProviderFailed(p)
    /\ \E p \in Cmds : local[p].outcome.kind = "text"
    /\ \E p \in Cmds : local[p].outcome.kind = "reject"
    /\ overlapped # {}
    /\ netCalls = MaxInv

(***************************************************************************)
(* Properties of the settings (checked under SettingsSpec)                 *)
(***************************************************************************)
\* the loads made so far
Loaded == { l \in Loaders : local[l] # NoLocal }

\* a configuration with both its fields, as saveSettings writes it
Complete(cfg) == DOMAIN cfg = DOMAIN DEFAULT_SETTINGS

\* C14: the settings loaded hold, for each field, the value data.json holds for
\* it if it holds one and the default otherwise, so that a data.json written by
\* saveSettings, which holds every field of the configuration saved, is loaded
\* as that configuration; the load leaves data.json as it found it, and what is
\* saved is the configuration as it was when saveSettings was called.
C14_SaveThenLoad ==
    /\ \A l \in Loaded :
          /\ DOMAIN local[l].loaded = DOMAIN DEFAULT_SETTINGS
          /\ \A f \in DOMAIN local[l].loaded :
                local[l].loaded[f] = IF f \in DOMAIN local[l].blob
                                     THEN local[l].blob[f]
                                     ELSE DEFAULT_SETTINGS[f]
          /\ Complete(local[l].blob) => local[l].loaded = local[l].blob
          /\ local[l].dataAfter = local[l].blob
    /\ \A e \in Edits \cup PromptEdits :
          pc[e] = "saveData" => Complete(local[e].saving)
    /\ Complete(settings)
    /\ (\A e \in Edits \cup PromptEdits : pc[e] = "idle") =>
          \/ data \in Blobs
          \/ Complete(data)

\* C14, its case: a configuration whose two fields were edited, the prompt to
\* the empty string, has been saved and loaded in a new session
C14_Witness ==
    \E l \in Loaded :
        /\ Complete(local[l].blob)
        /\ local[l].blob.mephistoPrompt = << >>
        /\ local[l].blob.geminiApiKey = << "k", "2" >>
        /\ local[l].before = local[l].blob

\* C14, its other case: a data.json that holds the prompt alone has been loaded
C14_PartialWitness ==
    \E l \in Loaded : DOMAIN local[l].blob = { "mephistoPrompt" }

\* the invocation p was never in flight together with another
NeverOverlapped(p) == \A r \in Cmds : << r, p >> \notin overlapped /\ << p, r >> \notin overlapped

\* C15 as claimed: whatever the invocations and their interleaving, the call that
\* follows a showLoading on the view is a showAnalysis or a showError: no call
\* made while the view shows the loading indicator is a showLoading.
C15_LoadingThenResultOrError ==
    \A p \in Cmds : \A k \in DOMAIN trace[p] :
        trace[p][k].from[1] = "loading" => trace[p][k].to[1] \in {"result", "error"}

\* C15 as amended: the first call an invocation makes on the view is showLoading
\* and every later one is showAnalysis or showError, so that its showLoading is
\* followed, among its own calls, by one of these; for an invocation that no other
\* overlaps, no call at all comes between the two. Overlapping invocations do
\* call showLoading on a view that shows the loading indicator of another.
C15_OwnLoadingThenResultOrError ==
    \A p \in Cmds :
        /\ trace[p] # << >> =>
              /\ trace[p][1].to = Loading
              /\ \A k \in 2 .. Len(trace[p]) : trace[p][k].to[1] \in {"result", "error"}
              /\ pc[p] = "done" => Len(trace[p]) >= 2
        /\ NeverOverlapped(p) =>
              \A k \in DOMAIN trace[p] :
                  /\ k = 1 => trace[p][k].from[1] # "loading"
                  /\ k = 2 => trace[p][k].from = Loading
        /\ pc[p] \in {"generateContent"} =>
              /\ Len(trace[p]) = 1
              /\ NeverOverlapped(p) => Content(leaves[1]) = Loading

\* C15, its case: an invocation has called showLoading on the loading indicator
\* of another, and both have gone on to their result or error
C15_Witness ==
    /\ \E p \in Cmds : trace[p] # << >> /\ trace[p][1].from[1] = "loading"
    /\ \A p \in Cmds : pc[p] = "done" /\ Len(trace[p]) >= 2

(***************************************************************************)
(* Properties of the client's errors (checked under ClientSpec)            *)
(***************************************************************************)
\* the direct calls of analyzeNote that the provider has failed
Rejected == { c \in Made : calls[c].pc = "done" /\ calls[c].outcome.kind = "reject" }

\* C16: when the provider fails a call of analyzeNote, analyzeNote throws an Error
\* whose message is 'Invalid API key. Please check your settings.' if the failure
\* is an Error that carries API_KEY_INVALID, 'API quota exceeded. Please try again
\* later.' if it is an Error that carries QUOTA_EXCEEDED, 'Analysis failed: '
\* followed by the failure's message if it is any other Error, and 'Unknown error
\* occurred during analysis' if it is no Error; it throws nothing else.
C16_ErrorMapping ==
    \A c \in Rejected :
        LET failure == calls[c].outcome.error
            thrown == calls[c].result
        IN  /\ thrown.kind = "throw"
            /\ thrown.error.isError
            /\ (failure.isError /\ Includes(failure.message, "API_KEY_INVALID")) =>
                  thrown.error.message = << "Invalid API key. Please check your settings." >>
            /\ (failure.isError /\ Includes(failure.message, "QUOTA_EXCEEDED")) =>
                  thrown.error.message = << "API quota exceeded. Please try again later." >>
            /\ (/\ failure.isError
                /\ ~Includes(failure.message, "API_KEY_INVALID")
                /\ ~Includes(failure.message, "QUOTA_EXCEEDED")) =>
                  thrown.error.message = << "Analysis failed: " >> \o failure.message
            /\ ~failure.isError =>
                  thrown.error.message = << "Unknown error occurred during analysis" >>
            /\ \/ thrown.error.message \in
                     { InvalidApiKey, QuotaExceeded, UnknownAnalysisError }
               \/ /\ Head(thrown.error.message) = "Analysis failed: "
                  /\ Tail(thrown.error.message) = failure.message

\* C16, its case: the provider has failed one call with an Error that carries no
\* code and another with a value that is no Error
C16_Witness ==
    /\ \E c \in Rejected : calls[c].outcome.error = Err(<< "fetch failed" >>)
    /\ \E c \in Rejected : ~calls[c].outcome.error.isError

(***************************************************************************)
(* Properties of the client within the plugin (checked under Spec)         *)
(***************************************************************************)
\* C17: no step takes the client from initialized to uninitialized, whether it is
\* a command, an answer of the provider or an edit of the key, the key cleared
\* or set to white space included; the step in which an edit initializes the
\* client with a key that is not blank, and the step in which a command does,
\* leave genAI and model built from that key, whatever they held before.
C17_OneWayInitialized ==
    [][/\ IsInitialized(model) => IsInitialized(model')
       /\ everInit => IsInitialized(model')
       /\ \A e \in Edits :
             (pc[e] = "saveData" /\ pc'[e] = "idle" /\ ~WhiteOnly(local[e].value)) =>
                 /\ genAI' = GoogleGenerativeAI(local[e].value)
                 /\ model'.apiKey = local[e].value
                 /\ IsInitialized(model')
       /\ \A p \in Cmds :
             (pc[p] = "idle" /\ pc'[p] # "idle" /\ ~IsInitialized(model)
                 /\ ~WhiteOnly(settings.geminiApiKey)) =>
                 /\ genAI' = GoogleGenerativeAI(settings.geminiApiKey)
                 /\ model'.apiKey = settings.geminiApiKey
                 /\ IsInitialized(model')]_vars

\* C17, its case: on a client that holds the handle of the key 'k2', which an
\* edit gave it in place of another, an edit to white space has failed to
\* initialize, after a command has called the provider
C17_Witness ==
    /\ \E e \in Edits : notices[e] = << InvalidKeyNotice >>
    /\ IsInitialized(model)
    /\ model.apiKey = << "k", "2" >>
    /\ data # << >> /\ "geminiApiKey" \in DOMAIN data /\ data.geminiApiKey = << " " >>
    /\ netCalls > 0

\* C18: a view that no longer shows the welcome message does not show it after
\* any step (a command, an activation that reveals it, an answer, a rendering, an
\* edit of the key), and stays a view; a view shows the welcome message only as
\* onOpen left it, no invocation having called showLoading on it.
C18_WelcomeNeverReturns ==
    [][/\ \A i \in DOMAIN leaves :
             leaves[i].st # "welcome" =>
                 /\ i \in DOMAIN leaves'
                 /\ leaves'[i].st # "welcome"
       /\ \A i \in DOMAIN leaves' :
             leaves'[i].st = "welcome" =>
                 /\ leaves'[i] = ShowWelcomeMessage
                 /\ \A p \in Cmds : local'[p] # NoLocal => local'[p].lensView # i]_vars

\* C18, its case: after one command had taken the view out of the welcome
\* message and returned, a second one has revealed that view again, written to
\* it and returned, and an edit of the key has run
C18_Witness ==
    /\ \A p \in Cmds : pc[p] = "done" /\ Len(trace[p]) >= 2
    /\ overlapped = {}
    /\ \E e \in Edits : notices[e] = << KeySaved >>
    /\ leaves # << >>
    /\ leaves[1].st \in {"result", "error"}
    /\ revealed = 1

\* C19 as claimed: every step that issues a network call issues it on a handle
\* built from the API key the settings hold at that moment.
C19_HandleOfConfiguredKey ==
    [][\A r \in requests' \ requests : r.apiKey = settings.geminiApiKey]_vars

(***************************************************************************)
(* Termination (checked under FairSpec)                                    *)
(***************************************************************************)
\* C20: every command invocation that has started returns in the end; whenever
\* no invocation is in flight no view shows the loading indicator; and an
\* invocation that has returned after calling showLoading has called
\* showAnalysis or showError after it.
C20_TerminatesOutOfLoading ==
    /\ \A p \in Cmds : (pc[p] \notin {"idle", "done"}) ~> (pc[p] = "done")
    /\ [](InFlight = {} => \A i \in DOMAIN leaves : leaves[i].st # "loading")
    /\ [](\A p \in Cmds :
            (pc[p] = "done" /\ trace[p] # << >>) =>
                /\ trace[p][1].to = Loading
                /\ Len(trace[p]) >= 2
                /\ \A k \in 2 .. Len(trace[p]) : trace[p][k].to[1] \in {"result", "error"})

\* C20, its case: two overlapping invocations have returned, one after a failure
\* of the provider and one after its rendering resolved, and the view shows an
\* error or a result
C20_Witness ==
    /\ overlapped # {}
    /\ InFlight = {}
    /\ \E p \in Cmds : pc[p] = "done" /\ local[p] # NoLocal /\ local[p].outcome.kind = "reject"
    /\ \E p \in Cmds : pc[p] = "done" /\ local[p] # NoLocal /\ local[p].render = "resolved"
    /\ leaves[1].st \in {"result", "error"}

=============================================================================
